---------------------------- MODULE Spec2Model ----------------------------
(***************************************************************************)
(* Model of import_checker/import_checker.py: the PyFile class (one unit   *)
(* per visited file), its recursive resolution of local imports, the       *)
(* aggregation get_dependencies and the driver parse_imports.              *)
(*                                                                         *)
(* Strings are modelled by their structure.  A dotted name "a.b" is the    *)
(* sequence <<"a","b">> of its identifiers; a path "pkg/a.b.py" is the     *)
(* sequence << <<"pkg">>, <<"a","b","py">> >> of its components, each      *)
(* component the sequence of its dot-separated pieces.  Joining with "."   *)
(* and replacing "." by "/" are then operations on these sequences.        *)
(* The recursion PyFile(...) -> resolve_dependencies ->                    *)
(* resolve_recursive_dependencies -> PyFile(...) is an explicit stack of   *)
(* frames, one per PyFile under construction.                              *)
(***************************************************************************)
EXTENDS Integers, Sequences, FiniteSets, TLC

(***************************************************************************)
(* Bounds of the model.                                                    *)
(***************************************************************************)
\* depth limits 0 .. MaxDepthLimit are tried (the -d option)
MaxDepthLimit == 3
\* parse_imports is given 1 .. MaxRoots paths (the -p option, nargs="+")
MaxRoots == 2
\* up to MaxDeleted files of a project tree are missing from the disk
MaxDeleted == 2

(***************************************************************************)
(* Names.                                                                  *)
(***************************************************************************)
\* ast.ImportFrom.module of "from . import x": the object None
None == <<>>

\* f"{module}": a str is itself, None becomes the four letters "None"
Format(module) == IF module = None THEN <<"None">> ELSE module

\* sys.stdlib_module_names: a frozenset of top-level module names (excerpt)
stdlib_module_names == { <<"os">>, <<"json">>, <<"sys">>, <<"ast">> }

\* The identifiers used by the modelled project trees, in the order of
\* Python's str comparison (code points: "*" < "N" < lower-case letters).
IdentOrder ==
    << "*", "None", "a", "alpha", "b", "bad", "beta", "c", "d", "json", "lib",
       "main", "mod", "one", "os", "pkg", "two", "x" >>

IdentRank(id) == CHOOSE i \in 1..Len(IdentOrder) : IdentOrder[i] = id

\* str.__lt__ on two dotted names: "." (0x2E) sorts below every identifier
\* character, so the comparison is lexicographic on the identifiers and a
\* proper prefix is smaller.
RECURSIVE StrLess(_, _)
StrLess(s, t) ==
    IF s = <<>> THEN t # <<>>
    ELSE IF t = <<>> THEN FALSE
    ELSE IF Head(s) = Head(t) THEN StrLess(Tail(s), Tail(t))
    ELSE IdentRank(Head(s)) < IdentRank(Head(t))

(***************************************************************************)
(* Paths and the file system.                                              *)
(***************************************************************************)
\* Path(f"{name}.py") in the working directory
File(name) == << name \o <<"py">> >>

\* Path.parent: the path without its last component
Parent(path) == SubSeq(path, 1, Len(path) - 1)

\* self.path.parent / f"{module}.py": the whole dotted string as a bare
\* file name beside the current file
SiblingPath(path, module) == Parent(path) \o << Format(module) \o <<"py">> >>

\* Path(f"{module.replace('.', '/')}.py"): every identifier but the last is
\* a directory below the working directory (module is a str here)
RootPath(module) ==
    [i \in 1..Len(module) |->
        IF i = Len(module) THEN <<module[i], "py">> ELSE <<module[i]>>]

\* Declarations as ast yields them.  An alias's asname is dropped: the code
\* never reads it.  "from M import *" has the single alias name "*".
Import(names) == [kind |-> "Import", module |-> None, names |-> names]
ImportFrom(module, names) ==
    [kind |-> "ImportFrom", module |-> module, names |-> names]

\* A file that ast.parse accepts, with its import statements in ast.walk order
Source(decls) == [parses |-> TRUE, decls |-> decls]
\* A file on which ast.parse raises SyntaxError
Broken == [parses |-> FALSE, decls |-> <<>>]

(***************************************************************************)
(* Project trees the analysis is run on.  Each is a working directory      *)
(* (disk: path -> file) and the paths a caller may pass as roots.          *)
(***************************************************************************)
\* a.py and b.py import each other; b.py also imports c
CycleTree ==
    [ disk |->
        (File(<<"a">>) :> Source(<< Import(<< <<"b">> >>) >>))
     @@ (File(<<"b">>) :> Source(<< Import(<< <<"a">>, <<"c">> >>) >>))
     @@ (File(<<"c">>) :> Source(<< ImportFrom(<<"lib">>, << <<"*">> >>) >>)),
      roots |-> { File(<<"a">>), File(<<"c">>) } ]

\* "import alpha" and "import alpha.beta"; alpha.beta.py lies beside a.py,
\* alpha/beta.py below the working directory, and there is no alpha.py
AlphaTree ==
    [ disk |->
        (File(<<"a">>) :>
            Source(<< Import(<< <<"alpha">> >>),
                      Import(<< <<"alpha", "beta">> >>) >>))
     @@ (File(<<"alpha", "beta">>) :> Source(<< Import(<< <<"json">> >>) >>))
     @@ (RootPath(<<"alpha", "beta">>) :>
            Source(<< ImportFrom(<<"lib">>, << <<"*">> >>) >>)),
      roots |-> { File(<<"a">>) } ]

\* "import pkg.mod" and "from pkg import mod" name the same file pkg/mod.py,
\* whose "import b" has a sibling pkg/b.py and a root-relative b.py
PkgTree ==
    [ disk |->
        (File(<<"main">>) :>
            Source(<< Import(<< <<"pkg", "mod">> >>),
                      ImportFrom(<<"pkg">>, << <<"mod">> >>) >>))
     @@ (RootPath(<<"pkg", "mod">>) :> Source(<< Import(<< <<"b">> >>) >>))
     @@ (RootPath(<<"pkg", "b">>) :> Source(<<>>))
     @@ (File(<<"b">>) :>
            Source(<< ImportFrom(<<"os">>, << <<"one">>, <<"two">> >>),
                      Import(<< <<"json">> >>) >>)),
      roots |-> { File(<<"main">>), RootPath(<<"pkg", "mod">>) } ]

\* relative imports whose module is None ("from . import x")
RelTree ==
    [ disk |->
        (File(<<"a">>) :> Source(<< ImportFrom(None, << <<"x">> >>) >>))
     @@ (File(<<"c">>) :>
            Source(<< ImportFrom(None, << <<"x">> >>),
                      Import(<< <<"b">> >>) >>))
     @@ (File(<<"b">>) :> Source(<<>>))
     @@ (File(<<"None">>) :> Source(<<>>)),
      roots |-> { File(<<"a">>), File(<<"c">>) } ]

\* a root with two local imports, a file that does not parse and a file
\* that imports it
BrokenTree ==
    [ disk |->
        (File(<<"a">>) :> Source(<< Import(<< <<"b">>, <<"c">> >>) >>))
     @@ (File(<<"b">>) :> Source(<< ImportFrom(<<"os">>, << <<"*">> >>) >>))
     @@ (File(<<"c">>) :>
            Source(<< ImportFrom(<<"os">>, << <<"one">>, <<"two">> >>),
                      Import(<< <<"json">>, <<"lib">> >>) >>))
     @@ (File(<<"d">>) :> Source(<< Import(<< <<"bad">> >>) >>))
     @@ (File(<<"bad">>) :> Broken),
      roots |-> { File(<<"a">>), File(<<"d">>) } ]

Projects == { CycleTree, AlphaTree, PkgTree, RelTree, BrokenTree }

\* The root lists parse_imports may be given: 1 .. MaxRoots of the
\* project's candidate roots, in any order, repeats allowed
RootLists(project) ==
    UNION { [1..n -> project.roots] : n \in 1..MaxRoots }

\* The sets of files that may be missing from a tree
Deletions(files) ==
    { deleted \in SUBSET DOMAIN files : Cardinality(deleted) <= MaxDeleted }

\* a tree with some of its files deleted
Without(files, deleted) == [p \in DOMAIN files \ deleted |-> files[p]]

(***************************************************************************)
(* State.                                                                  *)
(***************************************************************************)
VARIABLES
    disk,           \* the working directory: path -> file
    paths,          \* parse_imports' path: the list of root files
    depth,          \* parse_imports' depth: the depth limit of the run
    ignore_stdlib,  \* parse_imports' ignore_stdlib, passed on as include_stdlib_modules
    item,           \* parse_imports' loop: index of the next root in paths
    stack,          \* the PyFile objects under construction, innermost last
    pyfile,         \* <<unit>>: the root just constructed, not yet aggregated
    dependencies,   \* parse_imports' dependencies dict
    stdout,         \* <<document>> once json.dumps(dependencies) is printed
    raised,         \* the exception that ended the run, or "none"
    last,           \* the step taken last: operation, unit, name, child created
    first           \* <<[depth, ignore_stdlib, document]>>: an earlier run's settings and output

vars ==
    << disk, paths, depth, ignore_stdlib, item, stack, pyfile, dependencies,
       stdout, raised, last, first >>

(***************************************************************************)
(* dict: insertion-ordered, a sequence of [key, value] entries.            *)
(***************************************************************************)
DictKeys(d) == [i \in 1..Len(d) |-> d[i].key]

DictHas(d, k) == \E i \in 1..Len(d) : d[i].key = k

DictGet(d, k) == d[CHOOSE i \in 1..Len(d) : d[i].key = k].value

\* d[k] = v: an existing key keeps its position, a new one goes last
DictPut(d, k, v) ==
    IF DictHas(d, k)
    THEN [i \in 1..Len(d) |-> IF d[i].key = k THEN [key |-> k, value |-> v] ELSE d[i]]
    ELSE Append(d, [key |-> k, value |-> v])

(***************************************************************************)
(* PyFile: construction and classification.                                *)
(***************************************************************************)
\* The dataclass fields of a PyFile, with the position of its constructor:
\* pc, the names its two resolution loops have still to visit, and the
\* paths for which it has called PyFile(...).
NewPyFile(p, d, limit, include) ==
    [ path |-> p, depth |-> d, depth_limit |-> limit,
      include_stdlib_modules |-> include,
      library_dependencies |-> {}, specific_submodules_imported |-> {},
      imported_files |-> <<>>,
      pc |-> "post_init", todo_lib |-> {}, todo_sub |-> {}, constructed |-> <<>> ]

\* The object a finished constructor returns
Unit(self) ==
    [ path |-> self.path, depth |-> self.depth, depth_limit |-> self.depth_limit,
      include_stdlib_modules |-> self.include_stdlib_modules,
      library_dependencies |-> self.library_dependencies,
      specific_submodules_imported |-> self.specific_submodules_imported,
      imported_files |-> self.imported_files ]

\* Faulty variant of _add_library_dependency: the flag is read the wrong way
\* round, so the registry filter is applied when stdlib modules are wanted
AddLibraryDependencyInverted(self, name) ==
    IF ~self.include_stdlib_modules
    THEN [self EXCEPT !.library_dependencies = @ \cup {name}]
    ELSE IF name \in stdlib_module_names
         THEN self
         ELSE [self EXCEPT !.library_dependencies = @ \cup {name}]

AddLibraryDependency(self, name) ==
    IF self.include_stdlib_modules
    THEN [self EXCEPT !.library_dependencies = @ \cup {name}]
    ELSE IF name \in stdlib_module_names
         THEN self
         ELSE [self EXCEPT !.library_dependencies = @ \cup {name}]

\* for name in ast_import.names: self._add_library_dependency(name.name)
RECURSIVE AddNames(_, _)
AddNames(self, names) ==
    IF names = <<>> THEN self
    ELSE AddNames(AddLibraryDependency(self, Head(names)), Tail(names))

\* for name in names: self._add_library_dependency(module)
RECURSIVE AddModulePerName(_, _, _)
AddModulePerName(self, module, names) ==
    IF names = <<>> THEN self
    ELSE AddModulePerName(AddLibraryDependency(self, module), module, Tail(names))

\* for name in names: specific_submodules_imported.add(f"{module}.{name.name}")
RECURSIVE AddSubmodules(_, _, _)
AddSubmodules(self, module, names) ==
    IF names = <<>> THEN self
    ELSE AddSubmodules(
            [self EXCEPT !.specific_submodules_imported =
                            @ \cup {Format(module) \o Head(names)}],
            module, Tail(names))

process_import(self, ast_import) == AddNames(self, ast_import.names)

process_importfrom(self, ast_importfrom) ==
    AddSubmodules(
        AddModulePerName(self, ast_importfrom.module, ast_importfrom.names),
        ast_importfrom.module, ast_importfrom.names)

\* the loop over ast.walk(ast_module) of resolve_dependencies
RECURSIVE Classify(_, _)
Classify(self, decls) ==
    IF decls = <<>> THEN self
    ELSE LET decl == Head(decls) IN
         IF decl.kind = "Import"
         THEN Classify(process_import(self, decl), Tail(decls))
         ELSE Classify(
                process_importfrom(
                    AddModulePerName(self, decl.module, decl.names), decl),
                Tail(decls))

(***************************************************************************)
(* PyFile: resolution of local imports.                                    *)
(***************************************************************************)
\* Path.exists()
Exists(p) == p \in DOMAIN disk

\* Faulty variant of the depth check: ">" for "==", one level too late
AtDepthLimitLate(self) == self.depth > self.depth_limit

\* if self.depth == self.depth_limit: return
AtDepthLimit(self) == self.depth = self.depth_limit

\* Faulty variant of the child constructor call: include_stdlib_modules is
\* not passed on and takes its default, True
ChildDefaultFlag(self, new_module) ==
    NewPyFile(new_module, self.depth + 1, self.depth_limit, TRUE)

\* PyFile(path=new_module, depth=self.depth + 1, depth_limit=self.depth_limit,
\*        include_stdlib_modules=self.include_stdlib_modules)
Child(self, new_module) ==
    NewPyFile(new_module, self.depth + 1, self.depth_limit,
              self.include_stdlib_modules)

Skip == [outcome |-> "skip", path |-> <<>>]
Continue == [outcome |-> "continue", path |-> <<>>]
Recurse(new_module) == [outcome |-> "recurse", path |-> new_module]
Raise == [outcome |-> "raise", path |-> <<>>]

\* Faulty variant of the first loop's body: the path below the working
\* directory is tried before the sibling file
LibraryCandidateRootFirst(self, module) ==
    IF module \in stdlib_module_names THEN Skip
    ELSE IF module # None /\ Exists(RootPath(module))
         THEN Recurse(RootPath(module))
    ELSE IF Exists(SiblingPath(self.path, module))
         THEN Recurse(SiblingPath(self.path, module))
    ELSE IF module = None THEN Raise
    ELSE Continue

\* One iteration of "for module in self.library_dependencies": a registry
\* name is skipped; else the sibling file, else the path below the working
\* directory, else continue.  module.replace on None raises AttributeError.
LibraryCandidate(self, module) ==
    IF module \in stdlib_module_names THEN Skip
    ELSE IF Exists(SiblingPath(self.path, module))
         THEN Recurse(SiblingPath(self.path, module))
    ELSE IF module = None THEN Raise
    ELSE IF Exists(RootPath(module)) THEN Recurse(RootPath(module))
    ELSE Continue

\* One iteration of "for submodule in self.specific_submodules_imported":
\* only the path below the working directory is tried.  The modelled disks
\* hold no directory whose name ends in ".py", so is_dir() is False.
SubmoduleCandidate(self, submodule) ==
    IF submodule \in stdlib_module_names THEN Skip
    ELSE IF Exists(RootPath(submodule)) THEN Recurse(RootPath(submodule))
    ELSE Continue

Top == stack[Len(stack)]

Running == raised = "none"

Step(op, unit, name, child) ==
    [op |-> op, unit |-> unit, name |-> name, child |-> child]

\* the top frame replaced by self
WithTop(self) == [stack EXCEPT ![Len(stack)] = self]

\* parse_imports, "for item in path": PyFile(Path(item), depth_limit=depth,
\* include_stdlib_modules=ignore_stdlib) is called; depth defaults to 0
ConstructRoot ==
    /\ Running
    /\ stack = <<>>
    /\ pyfile = <<>>
    /\ item <= Len(paths)
    /\ stack' = << NewPyFile(paths[item], 0, depth, ignore_stdlib) >>
    /\ last' = Step("construct", paths[item], None, <<>>)
    /\ UNCHANGED << disk, paths, depth, ignore_stdlib, item, pyfile,
                    dependencies, stdout, raised, first >>

\* resolve_dependencies up to the depth check: open and parse the file,
\* classify every import statement, return at the depth limit
ResolveDependencies ==
    /\ Running
    /\ stack # <<>>
    /\ Top.pc = "post_init"
    /\ last' = Step("classify", Top.path, None, <<>>)
    /\ IF ~Exists(Top.path)
       THEN /\ raised' = "FileNotFoundError"
            /\ UNCHANGED stack
       ELSE IF ~disk[Top.path].parses
       THEN /\ raised' = "SyntaxError"
            /\ UNCHANGED stack
       ELSE LET self == Classify(Top, disk[Top.path].decls) IN
            /\ raised' = raised
            /\ stack' = WithTop(
                 IF AtDepthLimit(self)
                 THEN [self EXCEPT !.pc = "return"]
                 ELSE [self EXCEPT
                         !.pc = "resolve",
                         !.todo_lib = self.library_dependencies,
                         !.todo_sub = self.specific_submodules_imported])
    /\ UNCHANGED << disk, paths, depth, ignore_stdlib, item, pyfile,
                    dependencies, stdout, first >>

\* The effect of one loop iteration whose candidate is c: nothing, a child
\* constructor call, or an exception
Visit(self, op, name, c) ==
    /\ last' = Step(op, self.path, name,
                    IF c.outcome = "recurse" THEN <<c.path>> ELSE <<>>)
    /\ raised' = IF c.outcome = "raise" THEN "AttributeError" ELSE raised
    /\ stack' =
         IF c.outcome = "recurse"
         THEN Append(WithTop([self EXCEPT !.constructed = Append(@, c.path)]),
                     Child(self, c.path))
         ELSE WithTop(self)

\* resolve_recursive_dependencies, first loop.  A set is iterated in an
\* order the program does not fix (str hashes are salted per process).
ResolveLibrary ==
    /\ Running
    /\ stack # <<>>
    /\ Top.pc = "resolve"
    /\ \E module \in Top.todo_lib :
         Visit([Top EXCEPT !.todo_lib = @ \ {module}], "library", module,
               LibraryCandidate(Top, module))
    /\ UNCHANGED << disk, paths, depth, ignore_stdlib, item, pyfile,
                    dependencies, stdout, first >>

\* resolve_recursive_dependencies, second loop
ResolveSubmodule ==
    /\ Running
    /\ stack # <<>>
    /\ Top.pc = "resolve"
    /\ Top.todo_lib = {}
    /\ \E submodule \in Top.todo_sub :
         Visit([Top EXCEPT !.todo_sub = @ \ {submodule}], "submodule", submodule,
               SubmoduleCandidate(Top, submodule))
    /\ UNCHANGED << disk, paths, depth, ignore_stdlib, item, pyfile,
                    dependencies, stdout, first >>

\* Faulty variant of the store: imported_files is replaced by a dict of the
\* one child instead of being added to
StoreChildAlone(self, child) ==
    [self EXCEPT !.imported_files = << [key |-> child.path, value |-> child] >>]

\* self.imported_files[str(new_module)] = <the constructed child>
StoreChild(self, child) ==
    [self EXCEPT !.imported_files = DictPut(@, child.path, child)]

\* A constructor returns: to the loop that called it, which stores the
\* child, or to parse_imports
Return ==
    /\ Running
    /\ stack # <<>>
    /\ \/ Top.pc = "return"
       \/ Top.pc = "resolve" /\ Top.todo_lib = {} /\ Top.todo_sub = {}
    /\ last' = Step("return", Top.path, None, <<>>)
    /\ IF Len(stack) = 1
       THEN /\ stack' = <<>>
            /\ pyfile' = << Unit(Top) >>
       ELSE /\ stack' =
                 [i \in 1..(Len(stack) - 1) |->
                    IF i = Len(stack) - 1
                    THEN StoreChild(stack[i], Unit(Top))
                    ELSE stack[i]]
            /\ pyfile' = pyfile
    /\ UNCHANGED << disk, paths, depth, ignore_stdlib, item, dependencies,
                    stdout, raised, first >>

(***************************************************************************)
(* Aggregation and output.                                                 *)
(***************************************************************************)
\* sorted(list(names)) on str elements
RECURSIVE sorted(_)
sorted(names) ==
    IF names = {} THEN <<>>
    ELSE LET least == CHOOSE s \in names :
                        \A t \in names \ {s} : StrLess(s, t)
         IN  <<least>> \o sorted(names \ {least})

\* sorted raises TypeError when it has to compare None with a str
SortRaises(names) == None \in names /\ Cardinality(names) > 1

\* whether get_dependencies raises somewhere in the tree below self
RECURSIVE GetDependenciesRaises(_)
GetDependenciesRaises(self) ==
    \/ SortRaises(self.library_dependencies)
    \/ \E i \in 1..Len(self.imported_files) :
            GetDependenciesRaises(self.imported_files[i].value)

\* deps[str(self.path)] = the two sorted lists
Entry(self, deps) ==
    DictPut(deps, self.path,
            [ library_dependencies |-> sorted(self.library_dependencies),
              specific_submodules_imported |->
                  sorted(self.specific_submodules_imported) ])

\* get_dependencies: the unit's own entry, then every child in the order
\* of imported_files, all into the same dict
RECURSIVE get_dependencies(_, _)
RECURSIVE GetChildren(_, _)
get_dependencies(self, deps) ==
    GetChildren(self.imported_files, Entry(self, deps))
GetChildren(files, deps) ==
    IF files = <<>> THEN deps
    ELSE GetChildren(Tail(files), get_dependencies(Head(files).value, deps))

\* parse_imports: pyfile.get_dependencies(dependencies=dependencies), and on
\* to the next root
Aggregate ==
    /\ Running
    /\ pyfile # <<>>
    /\ last' = Step("aggregate", pyfile[1].path, None, <<>>)
    /\ IF GetDependenciesRaises(pyfile[1])
       THEN /\ raised' = "TypeError"
            /\ UNCHANGED << dependencies, item, pyfile >>
       ELSE /\ dependencies' = get_dependencies(pyfile[1], dependencies)
            /\ item' = item + 1
            /\ pyfile' = <<>>
            /\ raised' = raised
    /\ UNCHANGED << disk, paths, depth, ignore_stdlib, stack, stdout, first >>

\* Faulty variant of parse_imports: the print statement is inside the loop
\* over the roots
LoopDoneAfterFirstRoot == stack = <<>> /\ pyfile = <<>> /\ item > 1

\* whether parse_imports has reached its print statement
LoopDone == stack = <<>> /\ pyfile = <<>> /\ item > Len(paths)

\* print(json.dumps(dependencies, indent=4)), after the loop over the roots
PrintDependencies ==
    /\ Running
    /\ LoopDone
    /\ stdout = <<>>
    /\ stdout' = << dependencies >>
    /\ last' = Step("print", <<>>, None, <<>>)
    /\ UNCHANGED << disk, paths, depth, ignore_stdlib, item, stack, pyfile,
                    dependencies, raised, first >>

(***************************************************************************)
(* Specifications.                                                         *)
(***************************************************************************)
Init ==
    /\ \E project \in Projects :
         /\ \E deleted \in Deletions(project.disk) :
                disk = Without(project.disk, deleted)
         /\ paths \in RootLists(project)
    /\ depth \in 0..MaxDepthLimit
    /\ ignore_stdlib \in BOOLEAN
    /\ item = 1
    /\ stack = <<>>
    /\ pyfile = <<>>
    /\ dependencies = <<>>
    /\ stdout = <<>>
    /\ raised = "none"
    /\ last = Step("start", <<>>, None, <<>>)
    /\ first = <<>>

Next ==
    \/ ConstructRoot
    \/ ResolveDependencies
    \/ ResolveLibrary
    \/ ResolveSubmodule
    \/ Return
    \/ Aggregate
    \/ PrintDependencies

\* one run of parse_imports
Spec == Init /\ [][Next]_vars

\* parse_imports called with one root
InitOneRoot == Init /\ Len(paths) = 1

\* One root is constructed and printed.  The run is a single thread of
\* control: whenever a step is possible the interpreter takes it
FairSpec == InitOneRoot /\ [][Next]_vars /\ WF_vars(Next)

\* The program is run again on the same files and roots: with the same
\* settings, with the depth limit raised by one, or with the other value of
\* ignore_stdlib
RunAgain ==
    /\ Running
    /\ stdout # <<>>
    /\ first = <<>>
    /\ first' = << [ depth |-> depth, ignore_stdlib |-> ignore_stdlib,
                     document |-> stdout[1] ] >>
    /\ \E setting \in { <<depth, ignore_stdlib>>, <<depth + 1, ignore_stdlib>>,
                        <<depth, ~ignore_stdlib>> } :
         /\ depth' = setting[1]
         /\ ignore_stdlib' = setting[2]
    /\ item' = 1
    /\ dependencies' = <<>>
    /\ stdout' = <<>>
    /\ last' = Step("start", <<>>, None, <<>>)
    /\ UNCHANGED << disk, paths, stack, pyfile, raised >>

NextTwice == Next \/ RunAgain

\* two runs of parse_imports, one after the other
SpecTwice == Init /\ [][NextTwice]_vars

(***************************************************************************)
(* Properties.  What a file declares is stated here from its declaration   *)
(* list directly, apart from the operators that model the code.            *)
(***************************************************************************)
Terminated == raised # "none" \/ stdout # <<>>

\* every unit below (and including) a unit
RECURSIVE UnitsBelow(_)
UnitsBelow(unit) ==
    {unit} \cup UNION { UnitsBelow(unit.imported_files[i].value) :
                            i \in 1..Len(unit.imported_files) }

\* every unit that exists in the state and has classified its file
ClassifiedUnits ==
    UNION { UnitsBelow(Unit(stack[i])) :
                i \in { j \in 1..Len(stack) : stack[j].pc # "post_init" } }
    \cup UNION { UnitsBelow(pyfile[i]) : i \in 1..Len(pyfile) }

\* every unit that exists in the state
AllUnits ==
    ClassifiedUnits \cup { Unit(stack[i]) : i \in 1..Len(stack) }

Range(seq) == { seq[i] : i \in 1..Len(seq) }

\* the module names a declaration list mentions
DeclaredModules(decls) ==
    UNION { IF d.kind = "Import" THEN Range(d.names) ELSE {d.module} :
                d \in Range(decls) }

\* module + "." + name for every name of every from-import
DeclaredSubmodules(decls) ==
    UNION { { Format(d.module) \o n : n \in Range(d.names) } :
                d \in { e \in Range(decls) : e.kind = "ImportFrom" } }

\* the same, for the concrete names only: a wildcard contributes none
ConcreteSubmodules(decls) ==
    UNION { { Format(d.module) \o n : n \in Range(d.names) \ { <<"*">> } } :
                d \in { e \in Range(decls) : e.kind = "ImportFrom" } }

DeclsOf(unit) == disk[unit.path].decls

\* no frame and no unit lies deeper than the depth limit of the run
C1_DepthBounded ==
    /\ Len(stack) <= depth + 1
    /\ \A u \in AllUnits : u.depth <= depth

(* C1: for any project tree, cyclic ones included, and any depth limit     *)
(* d >= 0, the construction of every root started at depth 0 comes to an   *)
(* end (the run prints its document or stops on an exception), and no unit *)
(* ever exists at a depth greater than d.                                  *)
C1_Terminates == []C1_DepthBounded /\ <>Terminated

\* a.py and b.py import each other; a run on a.py with a depth limit that
\* lets the cycle be walked round has printed its document
C1_Witness ==
    /\ disk = CycleTree.disk
    /\ paths = << File(<<"a">>) >>
    /\ depth >= 2
    /\ stdout # <<>>
    /\ DictHas(stdout[1], File(<<"b">>))

\* child was constructed by parent's resolution loop
C2_ChildOf(parent, child) ==
    /\ child.depth = parent.depth + 1
    /\ child.depth_limit = parent.depth_limit
    /\ child.include_stdlib_modules = parent.include_stdlib_modules

(* C2: every child stored in a unit's imported_files, and every child      *)
(* under construction, has its parent's depth plus one and its parent's    *)
(* depth_limit and include_stdlib_modules; roots have depth 0; a unit has  *)
(* children only if its depth is below its depth limit; a unit at the      *)
(* depth limit holds the two dependency sets its file declares and an      *)
(* empty imported_files.                                                   *)
C2_DepthInvariant ==
    /\ stack # <<>> => stack[1].depth = 0 /\ stack[1].depth_limit = depth
    /\ \A i \in 1..Len(pyfile) : pyfile[i].depth = 0
    /\ \A i \in 1..(Len(stack) - 1) :
          /\ C2_ChildOf(stack[i], stack[i + 1])
          /\ stack[i].depth < stack[i].depth_limit
    /\ \A u \in AllUnits :
          /\ \A i \in 1..Len(u.imported_files) :
                C2_ChildOf(u, u.imported_files[i].value)
          /\ u.imported_files # <<>> => u.depth < u.depth_limit
    /\ \A u \in ClassifiedUnits :
          u.depth = u.depth_limit =>
            /\ u.imported_files = <<>>
            /\ u.library_dependencies =
                 { m \in DeclaredModules(DeclsOf(u)) :
                     u.include_stdlib_modules \/ m \notin stdlib_module_names }
            /\ u.specific_submodules_imported = DeclaredSubmodules(DeclsOf(u))

\* a leaf at the depth limit, two levels down, with both sets populated,
\* stored in its parent
C2_Witness ==
    \E u \in ClassifiedUnits :
        /\ u.depth = 1
        /\ \E i \in 1..Len(u.imported_files) :
            LET leaf == u.imported_files[i].value IN
            /\ leaf.depth = 2
            /\ leaf.depth_limit = 2
            /\ ~leaf.include_stdlib_modules
            /\ leaf.library_dependencies # {}
            /\ leaf.specific_submodules_imported # {}

(* C3: a from-import with the wildcard marker adds its module to           *)
(* library_dependencies (subject to the stdlib filter) and no element to   *)
(* specific_submodules_imported; only concrete names n contribute M.n.     *)
C3_WildcardAddsNothing ==
    \A u \in ClassifiedUnits :
        /\ u.specific_submodules_imported = ConcreteSubmodules(DeclsOf(u))
        /\ \A d \in Range(DeclsOf(u)) :
              (d.kind = "ImportFrom" /\ d.module \notin stdlib_module_names)
                => d.module \in u.library_dependencies

(* C4: within one call of resolve_recursive_dependencies no child PyFile   *)
(* is constructed twice for the same resolved path.                        *)
C4_ConstructedOnce ==
    \A i \in 1..Len(stack) :
        \A j, k \in 1..Len(stack[i].constructed) :
            stack[i].constructed[j] = stack[i].constructed[k] => j = k

\* module is a name the first loop probes, and neither of its two files exists
C5_Unmatched(unit, module) ==
    /\ module \notin stdlib_module_names
    /\ ~Exists(SiblingPath(unit, module))
    /\ module = None \/ ~Exists(RootPath(module))

(* C5: a candidate from library_dependencies that matches neither the      *)
(* sibling file nor the dotted path below the working directory causes no  *)
(* recursion and no error and stays in library_dependencies, whatever      *)
(* declaration produced it ("from . import x" included).                   *)
C5_UnmatchedIsSilent ==
    (last.op = "library" /\ C5_Unmatched(last.unit, last.name)) =>
        /\ raised = "none"
        /\ last.child = <<>>
        /\ Top.path = last.unit
        /\ Top.pc = "resolve"
        /\ last.name \in Top.library_dependencies

\* the present run has printed, and differs from run in a depth limit one higher
C6_Deeper(run) ==
    /\ stdout # <<>>
    /\ depth = run.depth + 1
    /\ ignore_stdlib = run.ignore_stdlib

(* C6: for fixed roots, disk and include_stdlib_modules, the path keys of  *)
(* the output at depth limit d are among the path keys at depth limit      *)
(* d + 1 (both runs having produced their output).                         *)
C6_DepthMonotone ==
    \A i \in 1..Len(first) :
        C6_Deeper(first[i]) =>
            Range(DictKeys(first[i].document)) \subseteq Range(DictKeys(stdout[1]))

\* the deeper run has found files the shallower one did not reach, and the
\* shallower one had already recursed
C6_Witness ==
    \E i \in 1..Len(first) :
        /\ C6_Deeper(first[i])
        /\ first[i].depth >= 1
        /\ Len(first[i].document) >= 2
        /\ Len(stdout[1]) > Len(first[i].document)

\* the present run has printed, and differs from run in the flag only
C7_OtherFlag(run) ==
    /\ stdout # <<>>
    /\ depth = run.depth
    /\ ignore_stdlib # run.ignore_stdlib

(* C7: with include_stdlib_modules false a declared module is left out of  *)
(* library_dependencies if and only if it is in the registry (with true,   *)
(* none is left out); specific_submodules_imported does not depend on the  *)
(* flag: it is what the file declares, and a file has the same list in the *)
(* outputs of two runs that differ only in the flag.                       *)
C7_StdlibFilter ==
    /\ \A u \in ClassifiedUnits :
          /\ \A m \in DeclaredModules(DeclsOf(u)) :
                m \notin u.library_dependencies
                    <=> (~u.include_stdlib_modules /\ m \in stdlib_module_names)
          /\ u.library_dependencies \subseteq DeclaredModules(DeclsOf(u))
          /\ u.specific_submodules_imported = DeclaredSubmodules(DeclsOf(u))
    /\ \A i \in 1..Len(first) :
          C7_OtherFlag(first[i]) =>
            \A k \in Range(DictKeys(stdout[1])) :
                DictHas(first[i].document, k) =>
                    DictGet(first[i].document, k).specific_submodules_imported
                        = DictGet(stdout[1], k).specific_submodules_imported

\* c.py has "from os import one, two" and "import json, lib": with the flag
\* false only lib is left, and os.one, os.two are listed as before
C7_Witness ==
    \E i \in 1..Len(first) :
        /\ C7_OtherFlag(first[i])
        /\ ~ignore_stdlib
        /\ DictHas(stdout[1], File(<<"c">>))
        /\ DictHas(first[i].document, File(<<"c">>))
        /\ DictGet(stdout[1], File(<<"c">>)) =
             [ library_dependencies |-> << <<"lib">> >>,
               specific_submodules_imported |->
                    << <<"os", "one">>, <<"os", "two">> >> ]
        /\ DictGet(first[i].document, File(<<"c">>)).library_dependencies =
             << <<"json">>, <<"lib">>, <<"os">> >>

\* the present run has printed, with the settings of run
C8_SameRun(run) ==
    /\ stdout # <<>>
    /\ depth = run.depth
    /\ ignore_stdlib = run.ignore_stdlib

(* C8: two runs on the same roots with the same settings and an unchanged  *)
(* disk print the same ordered document: the same keys in the same order,  *)
(* each with the same two lists.                                           *)
C8_SameDocument ==
    \A i \in 1..Len(first) :
        C8_SameRun(first[i]) => stdout[1] = first[i].document

(* C9: if a visited file fails to parse, the run ends with SyntaxError and *)
(* nothing is written: the document is printed only once every root has    *)
(* been analysed and aggregated, and a run that raised has printed         *)
(* nothing.                                                                *)
C9_NoPartialOutput ==
    /\ raised # "none" => stdout = <<>>
    /\ \A u \in ClassifiedUnits : disk[u.path].parses
    /\ (last.op = "classify" /\ Exists(last.unit) /\ ~disk[last.unit].parses)
            => raised = "SyntaxError"
    /\ stdout # <<>> =>
          /\ raised = "none"
          /\ stack = <<>> /\ pyfile = <<>>
          /\ item = Len(paths) + 1
          /\ \A i \in 1..Len(paths) : DictHas(stdout[1], paths[i])
          /\ \A k \in Range(DictKeys(stdout[1])) : disk[k].parses

\* the second root's child does not parse: the first root is aggregated
\* already, and nothing is printed
C9_Witness ==
    /\ raised = "SyntaxError"
    /\ item = 2
    /\ dependencies # <<>>
    /\ Len(stack) = 2
    /\ stdout = <<>>

\* the file the resolution policy names for module in unit, if any
C10_Expected(unit, module) ==
    IF module \in stdlib_module_names THEN <<>>
    ELSE IF SiblingPath(unit, module) \in DOMAIN disk
         THEN << SiblingPath(unit, module) >>
    ELSE IF module # None /\ RootPath(module) \in DOMAIN disk
         THEN << RootPath(module) >>
    ELSE <<>>

(* C10: a non-registry name of library_dependencies is resolved first      *)
(* match wins: the sibling file if it exists, else the path below the      *)
(* working directory if it exists, else nothing; exactly that one file is  *)
(* recursed into.  A registry name is never probed.                        *)
C10_FirstMatchWins ==
    (last.op = "library" /\ raised = "none") =>
        LET expected == C10_Expected(last.unit, last.name) IN
        /\ last.child = expected
        /\ IF expected = <<>>
           THEN Top.path = last.unit /\ Top.pc = "resolve"
           ELSE /\ Len(stack) >= 2
                /\ Top.path = expected[1]
                /\ Top.pc = "post_init"
                /\ stack[Len(stack) - 1].path = last.unit
                /\ stack[Len(stack) - 1].constructed # <<>>
                /\ stack[Len(stack) - 1].constructed[
                        Len(stack[Len(stack) - 1].constructed)] = expected[1]

\* "import alpha" and "import alpha.beta" with alpha.beta.py beside the root
\* and alpha/beta.py below the working directory: alpha was left
\* unresolved, and alpha.beta recurses into the sibling only
C10_Witness ==
    /\ last.op = "library"
    /\ last.name = <<"alpha", "beta">>
    /\ Exists(RootPath(<<"alpha", "beta">>))
    /\ Len(stack) = 2
    /\ Top.path = File(<<"alpha", "beta">>)
    /\ stack[1].todo_lib = {}
    /\ stack[1].library_dependencies = { <<"alpha">>, <<"alpha", "beta">> }
    /\ stack[1].constructed = << File(<<"alpha", "beta">>) >>

====
